---- MODULE Spec2Model ----
(***************************************************************************)
(* Model of Draw (src/src/editor/core/draw/Draw.ts): the row layout of     *)
(* _computeRowList, the paint pass / position list / caret / history       *)
(* capture of render, the deferred default range of the constructor, and   *)
(* the undo/redo closure that render hands to the history manager.         *)
(*                                                                         *)
(* Arrays are objects: `heap` maps an array identity to its contents and   *)
(* `elementList` holds the identity this.elementList refers to, so that    *)
(* sharing an array between the live sequence and a history step is        *)
(* expressible. Indices stored in the state (range, position index, caret  *)
(* index) are the 0-based indices of the source; TLA+ sequences are        *)
(* 1-based, so element i of the source is list[i + 1].                     *)
(*                                                                         *)
(* An element is a record of its type, its value and, for an image, its    *)
(* width and height (0 where the source has none). Numbers are integers;   *)
(* NaN stands for the IEEE not-a-number a division 0 / 0 yields. Elements  *)
(* carry no rowFlex, size or rowMargin of their own, so rows are left      *)
(* aligned and the configured defaults apply. The painters, the canvas     *)
(* height and the search matches are the host platform's and are not part  *)
(* of the state.                                                           *)
(*                                                                         *)
(* HistoryManager, Position, RangeManager and deepClone are not in         *)
(* Draw.ts: execute appends the step, undo / redo may invoke any step that *)
(* was appended, the position list and the caret position are stored as    *)
(* given, and deepClone yields a new array with equal contents.            *)
(***************************************************************************)
EXTENDS Integers, Sequences, FiniteSets, TLC

\* ---------------------------------------------------------------- bounds
\* longest element sequence the editing host builds
MaxLen == 2
\* steps the history manager is given in one run
MaxHist == 1
\* longest element sequence handed to the constructor when only renders follow
MaxInitLen == 3

\* ------------------------------------------------------ program constants
ZERO == "ZERO"
NaN == -9999
DefaultSize == 2
DefaultRowMargin == 1
DefaultBasicRowMarginHeight == 1
Margins == <<1, 1, 1, 1>>
Null == [null |-> TRUE]

\* widths the host canvas may have (getBoundingClientRect().width)
CanvasWidths == {3, 4}
EditCanvasWidths == {4}

\* ------------------------------------------------------------- elements
TextElement(v) == [type |-> "text", value |-> v, width |-> 0, height |-> 0]
ImageElement(w, h) == [type |-> "image", value |-> "img", width |-> w, height |-> h]

\* the elements a host hands to the constructor: a glyph, a line break
\* marker and an image with its intrinsic size
Universe == {TextElement("a"), TextElement(ZERO), ImageElement(3, 2)}

\* the elements the host inserts while editing
EditUniverse == {TextElement("a"), ImageElement(3, 2)}

RECURSIVE ListsUpTo(_, _)
ListsUpTo(n, elements) ==
    IF n = 0 THEN {<<>>}
    ELSE LET shorter == ListsUpTo(n - 1, elements)
         IN shorter \cup {Append(l, e) : l \in {s \in shorter : Len(s) = n - 1},
                                         e \in elements}

\* ctx.measureText(value): width and ascent / descent of a glyph
MeasureText(v) ==
    CASE v = "a" -> [width |-> 2, actualBoundingBoxAscent |-> 1, actualBoundingBoxDescent |-> 0]
      [] OTHER -> [width |-> 0, actualBoundingBoxAscent |-> 0, actualBoundingBoxDescent |-> 0]

\* ---------------------------------------------- IEEE arithmetic with NaN
Add(a, b) == IF a = NaN \/ b = NaN THEN NaN ELSE a + b
Sub(a, b) == IF a = NaN \/ b = NaN THEN NaN ELSE a - b
Lt(a, b) == a # NaN /\ b # NaN /\ a < b

\* element.height * surplusWidth / element.width, evaluated after
\* element.width has been overwritten with surplusWidth: (h * s) / s.
\* 0 / 0 is NaN; for s # 0 the quotient is exact (taken on |s|, the sign
\* cancels).
RescaleHeight(h, s) ==
    IF h = NaN \/ s = 0 THEN NaN
    ELSE LET m == IF s < 0 THEN -s ELSE s IN (h * m) \div m

VARIABLES
    canvasWidth,     \* canvas.getBoundingClientRect().width
    heap,            \* array identity -> contents (IElement[])
    elementList,     \* this.elementList: identity of the live array
    rowList,         \* this.rowList
    positionList,    \* position.positionList
    cursorPosition,  \* position.cursorPosition (Null: none)
    range,           \* range.getRange()
    painted,         \* indices range.render was called for in the last render
    history,         \* historyManager: the steps passed to execute, in order
    timerPending,    \* the setTimeout task of _setDefaultRange is queued
    lastOp           \* the last operation and what it was called with

vars == <<canvasWidth, heap, elementList, rowList, positionList, cursorPosition,
          range, painted, history, timerPending, lastOp>>

\* ------------------------------------------------------ _computeRowList
\* innerWidth = (width - margins[1]) - margins[3]
InnerWidth(width) == (width - Margins[2]) - Margins[4]

\* the row pushed before the loop when the sequence is not empty
InitialRows(list) ==
    IF Len(list) # 0
    THEN <<[width |-> 0, height |-> 0, ascent |-> 0, elementList |-> <<>>]>>
    ELSE <<>>

\* "curRow.width + element.width > innerWidth": the image does not fit
ImageOverflows(curRowWidth, w, innerWidth) == curRowWidth + w > innerWidth

\* "const surplusWidth = innerWidth - curRow.width"
SurplusWidth(innerWidth, curRowWidth) == innerWidth - curRowWidth

\* the image branch's in-place update of the element
FitImage(element, curRowWidth, innerWidth) ==
    IF element.type = "image" /\ ImageOverflows(curRowWidth, element.width, innerWidth)
    THEN LET surplusWidth == SurplusWidth(innerWidth, curRowWidth)
         IN [element EXCEPT !.width = surplusWidth,
                            !.height = RescaleHeight(element.height, surplusWidth)]
    ELSE element

\* metrics of an element; `before` is the element as the loop found it,
\* `after` the element once the image branch has fitted it
Metrics(before, after) ==
    IF before.type = "image"
    THEN [width |-> after.width, height |-> before.height,
          boundingBoxAscent |-> 0, boundingBoxDescent |-> after.height]
    ELSE LET fontMetrics == MeasureText(before.value)
         IN [width |-> fontMetrics.width, height |-> DefaultSize,
             boundingBoxAscent |-> IF before.value = ZERO THEN DefaultSize
                                   ELSE fontMetrics.actualBoundingBoxAscent,
             boundingBoxDescent |-> fontMetrics.actualBoundingBoxDescent]

\* a break test that looks at the row as it is, not with the element added
StartsNewRow_IgnoresElement(curRowWidth, metricsWidth, innerWidth, i, value) ==
    curRowWidth > innerWidth \/ (i # 0 /\ value = ZERO)

\* the row break test; i is the 0-based loop index
StartsNewRow(curRowWidth, metricsWidth, innerWidth, i, value) ==
    curRowWidth + metricsWidth > innerWidth \/ (i # 0 /\ value = ZERO)

\* a push that overwrites the last row
PushRow_Overwrites(rows, row) == [rows EXCEPT ![Len(rows)] = row]

\* "rowList.push({...})" for an element that starts a row
PushRow(rows, row) == Append(rows, row)

RECURSIVE LayoutFrom(_, _, _, _)

\* "rowMargin = defaultBasicRowMarginHeight * (element.rowMargin || defaultRowMargin)"
RowMargin == DefaultBasicRowMarginHeight * DefaultRowMargin

\* "ascent = metrics.boundingBoxAscent + rowMargin"
Ascent(metrics) == Add(metrics.boundingBoxAscent, RowMargin)

\* "height = ascent + descent"
Height(metrics) == Add(Ascent(metrics), Add(metrics.boundingBoxDescent, RowMargin))

\* "rowElement = { ...element, metrics, style }"
RowElement(element, metrics) ==
    [type |-> element.type, value |-> element.value, width |-> element.width,
     height |-> element.height, metrics |-> metrics]

\* the row an element starts
NewRow(element, metrics) ==
    [width |-> metrics.width, height |-> Height(metrics), ascent |-> Ascent(metrics),
     elementList |-> <<RowElement(element, metrics)>>]

\* the current row once the element has joined it
JoinRow(curRow, element, metrics) ==
    [width |-> curRow.width + metrics.width,
     height |-> IF Lt(curRow.height, Height(metrics)) THEN Height(metrics)
                ELSE curRow.height,
     ascent |-> IF ~Lt(curRow.height, Height(metrics)) THEN curRow.ascent
                ELSE IF element.type = "image" THEN element.height
                ELSE Ascent(metrics),
     elementList |-> Append(curRow.elementList, RowElement(element, metrics))]

\* the second half of an iteration: the fitted element with its metrics
\* starts a row or joins the current one
PlaceElement(i, list, rows, innerWidth, element, metrics) ==
    [elementList |-> [list EXCEPT ![i + 1] = element],
     rowList |->
         IF StartsNewRow(rows[Len(rows)].width, metrics.width, innerWidth, i, element.value)
         THEN PushRow(rows, NewRow(element, metrics))
         ELSE [rows EXCEPT ![Len(rows)] = JoinRow(rows[Len(rows)], element, metrics)]]

\* the first half: the element is measured as the image branch fitted it
MeasureElement(i, list, rows, innerWidth, element) ==
    PlaceElement(i, list, rows, innerWidth, element, Metrics(list[i + 1], element))

\* one iteration of the loop (i 0-based) on the list and rows built so far
LayoutElement(i, list, rows, innerWidth) ==
    MeasureElement(i, list, rows, innerWidth,
                   FitImage(list[i + 1], rows[Len(rows)].width, innerWidth))

\* the loop from iteration i on, given what iteration i leaves
LayoutAfter(i, step, innerWidth) ==
    LayoutFrom(i + 1, step.elementList, step.rowList, innerWidth)

LayoutFrom(i, list, rows, innerWidth) ==
    IF i >= Len(list) THEN [elementList |-> list, rowList |-> rows]
    ELSE LayoutAfter(i, LayoutElement(i, list, rows, innerWidth), innerWidth)

\* _computeRowList: the rows, and the element sequence as the pass leaves it
ComputeRowList(list, width) ==
    LayoutFrom(0, list, InitialRows(list), InnerWidth(width))

\* ---------------------------------------------------------------- render
RECURSIVE SumWidths(_, _)
SumWidths(elems, n) ==
    IF n = 0 THEN 0 ELSE SumWidths(elems, n - 1) + elems[n].metrics.width

RECURSIVE SumHeights(_, _)
SumHeights(rows, n) ==
    IF n = 0 THEN 0 ELSE SumHeights(rows, n - 1) + rows[n].height

RECURSIVE CountBefore(_, _)
CountBefore(rows, n) ==
    IF n = 0 THEN 0 ELSE CountBefore(rows, n - 1) + Len(rows[n].elementList)

\* the position item of element j (0-based) of row i (0-based)
PositionItem(rows, i, j) ==
    LET curRow == rows[i + 1]
        element == curRow.elementList[j + 1]
        x == Margins[4] + SumWidths(curRow.elementList, j)
        y == Margins[1] + SumHeights(rows, i)
    IN [index |-> CountBefore(rows, i) + j,
        value |-> element.value,
        rowNo |-> i,
        metrics |-> element.metrics,
        ascent |-> IF element.type = "image" THEN Sub(curRow.ascent, element.height)
                   ELSE curRow.ascent,
        lineHeight |-> curRow.height,
        isLastLetter |-> (j = Len(curRow.elementList) - 1),
        leftTop |-> <<x, y>>]

RECURSIVE PaintRows(_, _)
\* the position items the row loop pushes for the first n rows, in order
PaintRows(rows, n) ==
    IF n = 0 THEN <<>>
    ELSE PaintRows(rows, n - 1) \o
         [j \in 1..Len(rows[n].elementList) |-> PositionItem(rows, n - 1, j - 1)]

\* a render that keeps the entries of the render before
ResetPositionList_Keeps(previous) == previous

\* "this.position.setPositionList([])": what the list holds before the loop
ResetPositionList(previous) == <<>>

\* a band that does not stop at endIndex
InSelection_OpenEnded(startIndex, endIndex, index) ==
    startIndex # endIndex /\ startIndex < index

\* "startIndex !== endIndex && startIndex < index && index <= endIndex"
InSelection(startIndex, endIndex, index) ==
    startIndex # endIndex /\ startIndex < index /\ index <= endIndex

\* "if (curIndex === undefined) curIndex = positionList.length - 1";
\* the argument is <<>> for undefined and <<n>> for n
ResolveCurIndex(curIndexArg, positions) ==
    IF curIndexArg = <<>> THEN Len(positions) - 1 ELSE curIndexArg[1]

\* a caret that falls back to the last entry
CursorTarget_Clamped(positions, curIndex) ==
    IF curIndex >= 0 /\ curIndex < Len(positions) THEN positions[curIndex + 1]
    ELSE IF Len(positions) > 0 THEN positions[Len(positions)] ELSE Null

\* "positionList[curIndex] || null"
CursorTarget(positions, curIndex) ==
    IF curIndex >= 0 /\ curIndex < Len(positions) THEN positions[curIndex + 1] ELSE Null

\* the end of a pass: the entries pushed onto the reset list, the selection
\* band among them, and the caret
FinishPass(lay, pushed, positions, cursor, rng, curIndexArg, isSetCursor) ==
    [elementList |-> lay.elementList,
     rowList |-> lay.rowList,
     positionList |-> ResetPositionList(positions) \o pushed,
     painted |-> {pushed[n].index : n \in
                    {m \in 1..Len(pushed) :
                       InSelection(rng.startIndex, rng.endIndex, pushed[m].index)}},
     curIndex |-> ResolveCurIndex(curIndexArg, ResetPositionList(positions) \o pushed),
     cursorPosition |->
         IF isSetCursor
         THEN CursorTarget(ResetPositionList(positions) \o pushed,
                           ResolveCurIndex(curIndexArg, ResetPositionList(positions) \o pushed))
         ELSE cursor]

\* the paint pass over the rows the layout left
PaintPass(lay, positions, cursor, rng, curIndexArg, isSetCursor) ==
    FinishPass(lay, PaintRows(lay.rowList, Len(lay.rowList)), positions, cursor, rng,
               curIndexArg, isSetCursor)

\* one render pass without its history capture: what it leaves in the
\* element sequence, the rows, the position list, the selection band and
\* the caret
RenderPass(list, rows, positions, cursor, rng, curIndexArg, isSetCursor, isComputeRowList, width) ==
    PaintPass(IF isComputeRowList THEN ComputeRowList(list, width)
              ELSE [elementList |-> list, rowList |-> rows],
              positions, cursor, rng, curIndexArg, isSetCursor)

\* -------------------------------------------------- arrays and snapshots
ObjectIds == 1..(MaxHist + 1)

\* the arrays something still refers to: the live one and the captured ones
Referenced(live, steps) == {live} \cup {steps[n].oldElementList : n \in 1..Len(steps)}

\* the identity a newly allocated array gets
FreshId(used) == CHOOSE id \in ObjectIds : id \notin used /\ \A other \in ObjectIds : other < id => other \in used

\* arrays nothing refers to any more are collected
Collect(h, live, steps) ==
    [id \in ObjectIds |-> IF id \in Referenced(live, steps) THEN h[id] ELSE <<>>]

\* a copy that hands back the array it was given
deepClone_Shared(source, fresh) == source

\* deepClone(source) of the utilities, which Draw.ts imports: the result is
\* a newly allocated array (its contents are those of the source)
deepClone(source, fresh) == fresh

\* a capture that keeps the live array itself
CapturedArray_Alias(live, fresh) == live

\* "const oldElementList = deepClone(this.elementList)": the array the step
\* keeps, given the live array and a newly allocated one
CapturedArray(live, fresh) == deepClone(live, fresh)

\* a restore that makes the step's array the live one
RestoredArray_Alias(old, fresh) == old

\* "self.elementList = deepClone(oldElementList)": the array that becomes
\* the live one, given the step's array and a newly allocated one
RestoredArray(old, fresh) == deepClone(old, fresh)

\* a capture taken before the layout pass
CapturedList_AtEntry(entry, laidOut) == entry

\* deepClone(this.elementList) is evaluated at the end of render: of the
\* sequence render was entered with and the sequence layout left, it copies
\* the latter
CapturedList(entry, laidOut) == laidOut

\* historyManager.execute(fn): the step is appended
Execute(steps, fn) == Append(steps, fn)

\* ------------------------------------------------------------ operations
RangeOf(a, b) == [startIndex |-> a, endIndex |-> b]

\* what the last operation was: its name and arguments, the element
\* sequence a render was entered with (entry), the setRange call this
\* component issued with the live length at that moment (setRange), the
\* sequence and range before an edit (pre, kept while a capturing render and
\* the invocation of its step follow directly), the history length before
\* it (histLen), and whether a step is invoked again after an edit that
\* followed its invocation (reinvoked)
NoOp ==
    [op |-> "init", pre |-> <<>>, setRange |-> <<>>, k |-> 0, reinvoked |-> FALSE,
     histLen |-> 0, entry |-> <<>>, curIndexArg |-> <<>>,
     isSubmitHistory |-> FALSE, isSetCursor |-> FALSE, isComputeRowList |-> FALSE]

CurIndexArgs == {<<>>, <<0>>, <<MaxInitLen>>}

\* the state the constructor leaves: the element sequence and the canvas the
\* host passed in, no rows, no positions, no history, and the default-range
\* task queued when the sequence is not empty
Constructed(widths, lists) ==
    /\ canvasWidth \in widths
    /\ elementList = 1
    /\ \E list \in lists :
         /\ heap = [id \in ObjectIds |-> IF id = 1 THEN list ELSE <<>>]
         /\ timerPending = (Len(list) # 0)
    /\ rowList = <<>>
    /\ positionList = <<>>
    /\ cursorPosition = Null
    /\ range = RangeOf(0, 0)
    /\ painted = {}
    /\ history = <<>>
    /\ lastOp = NoOp

Init == Constructed(EditCanvasWidths, ListsUpTo(MaxLen, EditUniverse))

\* the task queued by _setDefaultRange runs
DefaultRangeTask ==
    /\ timerPending
    /\ LET curIndex == Len(heap[elementList]) - 1
       IN /\ range' = RangeOf(curIndex, curIndex)
          /\ lastOp' = [NoOp EXCEPT !.op = "timer",
                          !.setRange = <<curIndex, curIndex, Len(heap[elementList])>>]
    /\ timerPending' = FALSE
    /\ UNCHANGED <<canvasWidth, heap, elementList, rowList, positionList,
                   cursorPosition, painted, history>>

\* the host edits the live array in place: elementList.splice(pos, 0, e)
Insert(e, pos) ==
    /\ Len(heap[elementList]) < MaxLen
    /\ pos \in 0..Len(heap[elementList])
    /\ LET list == heap[elementList]
       IN /\ heap' = [heap EXCEPT ![elementList] =
                        SubSeq(list, 1, pos) \o <<e>> \o SubSeq(list, pos + 1, Len(list))]
          /\ lastOp' = [NoOp EXCEPT !.op = "edit",
                          !.k = IF lastOp.op = "step" THEN lastOp.k ELSE 0,
                          !.pre = <<[elementList |-> list, range |-> range]>>]
    /\ UNCHANGED <<canvasWidth, elementList, rowList, positionList, cursorPosition,
                   range, painted, history, timerPending>>

\* elementList.splice(pos, 1)
Delete(pos) ==
    /\ pos \in 0..(Len(heap[elementList]) - 1)
    /\ LET list == heap[elementList]
       IN /\ heap' = [heap EXCEPT ![elementList] =
                        SubSeq(list, 1, pos) \o SubSeq(list, pos + 2, Len(list))]
          /\ lastOp' = [NoOp EXCEPT !.op = "edit",
                          !.k = IF lastOp.op = "step" THEN lastOp.k ELSE 0,
                          !.pre = <<[elementList |-> list, range |-> range]>>]
    /\ UNCHANGED <<canvasWidth, elementList, rowList, positionList, cursorPosition,
                   range, painted, history, timerPending>>

\* the host moves the selection: range.setRange(a, b)
SetRange(a, b) ==
    /\ 0 <= a /\ a <= b /\ b <= Len(heap[elementList])
    /\ range # RangeOf(a, b)
    /\ range' = RangeOf(a, b)
    /\ lastOp' = [NoOp EXCEPT !.op = "setRange"]
    /\ UNCHANGED <<canvasWidth, heap, elementList, rowList, positionList,
                   cursorPosition, painted, history, timerPending>>

\* the step render hands to the history manager
Step(old, pass, isComputeRowList, entry) ==
    [oldElementList |-> old,
     startIndex |-> range.startIndex,
     endIndex |-> range.endIndex,
     curIndex |-> pass.curIndex,
     computed |-> isComputeRowList,
     atCapture |-> CapturedList(entry, pass.elementList)]

\* render once its pass is done: the state it leaves, with the capture
Rendering(curIndexArg, isSubmitHistory, isSetCursor, isComputeRowList, entry, old, pass) ==
    /\ rowList' = pass.rowList
    /\ positionList' = pass.positionList
    /\ painted' = pass.painted
    /\ cursorPosition' = pass.cursorPosition
    /\ IF isSubmitHistory
       THEN /\ history' = Execute(history, Step(old, pass, isComputeRowList, entry))
            /\ heap' = [heap EXCEPT ![elementList] = pass.elementList,
                                    ![old] = CapturedList(entry, pass.elementList)]
       ELSE /\ history' = history
            /\ heap' = [heap EXCEPT ![elementList] = pass.elementList]
    /\ lastOp' = [NoOp EXCEPT !.op = "render", !.entry = entry,
                    !.histLen = Len(history),
                    !.pre = IF lastOp.op = "edit" /\ isSubmitHistory
                            THEN lastOp.pre ELSE <<>>,
                    !.curIndexArg = curIndexArg,
                    !.isSubmitHistory = isSubmitHistory,
                    !.isSetCursor = isSetCursor,
                    !.isComputeRowList = isComputeRowList]
    /\ UNCHANGED <<canvasWidth, elementList, range, timerPending>>

\* render(payload)
Render(curIndexArg, isSubmitHistory, isSetCursor, isComputeRowList) ==
    /\ isSubmitHistory => Len(history) < MaxHist
    /\ Rendering(curIndexArg, isSubmitHistory, isSetCursor, isComputeRowList,
                 heap[elementList],
                 CapturedArray(elementList, FreshId(Referenced(elementList, history))),
                 RenderPass(heap[elementList], rowList, positionList, cursorPosition,
                            range, curIndexArg, isSetCursor, isComputeRowList,
                            canvasWidth))

\* the body of a step: setRange, the restored array, then
\* render({ curIndex, isSubmitHistory: false })
Restoring(k, fn, target, pass) ==
    /\ range' = RangeOf(fn.startIndex, fn.endIndex)
    /\ elementList' = target
    /\ rowList' = pass.rowList
    /\ positionList' = pass.positionList
    /\ painted' = pass.painted
    /\ cursorPosition' = pass.cursorPosition
    /\ history' = history
    /\ heap' = Collect([heap EXCEPT ![target] = pass.elementList], target, history)
    /\ lastOp' = [NoOp EXCEPT !.op = "step", !.k = k,
                    !.entry = heap[fn.oldElementList],
                    !.histLen = Len(history),
                    !.pre = IF lastOp.op = "render" /\ k = Len(history)
                            THEN lastOp.pre ELSE <<>>,
                    !.reinvoked = (lastOp.op = "edit" /\ lastOp.k = k),
                    !.curIndexArg = <<fn.curIndex>>,
                    !.isSetCursor = TRUE,
                    !.isComputeRowList = TRUE,
                    !.setRange = <<fn.startIndex, fn.endIndex, Len(heap[elementList])>>]
    /\ UNCHANGED <<canvasWidth, timerPending>>

\* undo / redo invoke the k-th step handed to the history manager
InvokeStep(k) ==
    /\ k \in 1..Len(history)
    /\ Restoring(k, history[k],
                 RestoredArray(history[k].oldElementList,
                               FreshId(Referenced(history[k].oldElementList, history))),
                 RenderPass(heap[history[k].oldElementList], rowList, positionList,
                            cursorPosition,
                            RangeOf(history[k].startIndex, history[k].endIndex),
                            <<history[k].curIndex>>, TRUE, TRUE, canvasWidth))

\* the editing host: edits, caret moves, renders with and without history
\* capture and layout, undo / redo
Next ==
    \/ DefaultRangeTask
    \/ \E e \in EditUniverse, pos \in 0..MaxLen : Insert(e, pos)
    \/ \E pos \in 0..MaxLen : Delete(pos)
    \/ \E a \in 0..MaxLen : SetRange(a, a)
    \/ \E isSubmitHistory \in BOOLEAN, isComputeRowList \in BOOLEAN :
         Render(<<>>, isSubmitHistory, TRUE, isComputeRowList)
    \/ \E k \in 1..MaxHist : InvokeStep(k)

Spec == Init /\ [][Next]_vars

\* a host that only selects and renders what it constructed the editor with.
\* Without a history capture render reads curIndex only to set the caret, so
\* the argument is varied where isSetCursor holds
InitRender == Constructed(CanvasWidths, ListsUpTo(MaxInitLen, Universe))

NextRender ==
    \/ DefaultRangeTask
    \/ \E a \in 0..MaxInitLen, b \in 0..MaxInitLen : SetRange(a, b)
    \/ \E isSetCursor \in BOOLEAN, isComputeRowList \in BOOLEAN :
         \E curIndexArg \in (IF isSetCursor THEN CurIndexArgs ELSE {<<>>}) :
            Render(curIndexArg, FALSE, isSetCursor, isComputeRowList)

SpecRender == InitRender /\ [][NextRender]_vars

\* ================================================================ claims
\* the element fields of the row elements, in row order
RECURSIVE RowElements(_, _)
RowElements(rows, n) ==
    IF n = 0 THEN <<>>
    ELSE RowElements(rows, n - 1) \o
         [j \in 1..Len(rows[n].elementList) |->
            [type |-> rows[n].elementList[j].type,
             value |-> rows[n].elementList[j].value,
             width |-> rows[n].elementList[j].width,
             height |-> rows[n].elementList[j].height]]

Kinds(list) == [j \in 1..Len(list) |-> <<list[j].type, list[j].value>>]

Rendered == lastOp.op \in {"render", "step"}
LaidOut == Rendered /\ lastOp.isComputeRowList
Captured == lastOp.op = "render" /\ lastOp.isSubmitHistory
Invoked == lastOp.op = "step"
InnerNow == InnerWidth(canvasWidth)

\* the width of the current row when the layout loop reaches element i
\* (1-based) of list
RowWidthAt(list, i) ==
    IF i = 1 THEN 0
    ELSE LET rows == ComputeRowList(SubSeq(list, 1, i - 1), canvasWidth).rowList
         IN rows[Len(rows)].width

RowCountAt(list, i) == Len(ComputeRowList(SubSeq(list, 1, i), canvasWidth).rowList)

\* C1 (as claimed): a step invoked right after the capturing render that
\* followed an edit leaves the element sequence and the range as they were
\* before the edit, and the history as long as it was
C1_UndoRestoresPreMutation ==
    (Invoked /\ lastOp.pre # <<>>) =>
        /\ heap[elementList] = lastOp.pre[1].elementList
        /\ range = lastOp.pre[1].range
        /\ Len(history) = lastOp.histLen

\* C1 (amended): invoking a step leaves the element sequence equal to the
\* sequence its render captured, fitted by the invocation's own layout pass
\* (the captured sequence itself when that render had laid it out), the
\* range equal to the range current at that render, and pushes no step
C1_UndoRestoresCaptured ==
    Invoked =>
        LET fn == history[lastOp.k]
        IN /\ heap[elementList] = ComputeRowList(fn.atCapture, canvasWidth).elementList
           /\ fn.computed => heap[elementList] = fn.atCapture
           /\ range = RangeOf(fn.startIndex, fn.endIndex)
           /\ Len(history) = lastOp.histLen

C1_Witness ==
    /\ Invoked /\ lastOp.pre # <<>>
    /\ heap[elementList] # lastOp.pre[1].elementList
    /\ heap[elementList] = history[lastOp.k].atCapture
    /\ lastOp.setRange[1] # 0

\* C2: the array a step keeps always holds what was copied into it at the
\* capture, whatever was done to the live sequence since
C2_StepsKeepTheirCapture ==
    \A k \in 1..Len(history) :
        /\ heap[history[k].oldElementList] = history[k].atCapture
        /\ history[k].oldElementList # elementList

C2_Witness ==
    /\ Invoked /\ lastOp.reinvoked
    /\ lastOp.setRange[3] # Len(history[lastOp.k].atCapture)
    /\ \E j \in 1..Len(heap[elementList]) : heap[elementList][j].type = "image"

\* C3 (as claimed): the sequence a render stores in the step it pushes is
\* the sequence the render was entered with
C3_CaptureIsPreRender ==
    Captured => heap[history[Len(history)].oldElementList] = lastOp.entry

\* C3 (amended): the sequence a render stores in the step it pushes is the
\* live sequence as the layout pass of that render left it, images fitted;
\* the rows and positions of that render are those of the same pass
C3_CaptureIsPostLayout ==
    Captured =>
        LET stored == heap[history[Len(history)].oldElementList]
            lay == ComputeRowList(lastOp.entry, canvasWidth)
        IN /\ stored = heap[elementList]
           /\ stored = (IF lastOp.isComputeRowList THEN lay.elementList ELSE lastOp.entry)
           /\ lastOp.isComputeRowList => rowList = lay.rowList
           /\ positionList = PaintRows(rowList, Len(rowList))
           /\ Len(history) = lastOp.histLen + 1

C3_Witness ==
    /\ Captured /\ lastOp.isComputeRowList
    /\ heap[history[Len(history)].oldElementList] # lastOp.entry

\* C4: every setRange(a, b) this component issues has
\* 0 <= a <= b <= length of the live sequence at the call
C4_SetRangeWithinBounds ==
    lastOp.setRange # <<>> =>
        /\ 0 <= lastOp.setRange[1]
        /\ lastOp.setRange[1] <= lastOp.setRange[2]
        /\ lastOp.setRange[2] <= lastOp.setRange[3]

\* C5 (as claimed): a render paints the selection for exactly the indices
\* i with startIndex <= i < endIndex
C5_PaintsHalfOpenFromStart ==
    Rendered =>
        painted = {i \in 0..(Len(positionList) - 1) :
                     /\ range.startIndex # range.endIndex
                     /\ range.startIndex <= i /\ i < range.endIndex}

\* C5 (amended): a render paints the selection for exactly the indices i
\* with startIndex < i <= endIndex, so neither the element at startIndex nor
\* any element after endIndex is painted, and for none when the range is
\* collapsed
C5_PaintsAfterStartThroughEnd ==
    Rendered =>
        /\ painted = {i \in 0..(Len(positionList) - 1) :
                        range.startIndex < i /\ i <= range.endIndex}
        /\ range.startIndex = range.endIndex => painted = {}

C5_Witness ==
    /\ Rendered /\ Len(positionList) = 3
    /\ range = RangeOf(0, 1)
    /\ 1 \in painted /\ 0 \notin painted /\ 2 \notin painted

\* C6: the position list holds exactly one entry per element of the rows
\* that were painted, entry i carrying index i, and after a render that
\* laid out the sequence it is as long as the live sequence
C6_PositionIndexIdentity ==
    /\ \A i \in 1..Len(positionList) : positionList[i].index = i - 1
    /\ Len(positionList) = CountBefore(rowList, Len(rowList))
    /\ [i \in 1..Len(positionList) |-> positionList[i].value] =
         [i \in 1..CountBefore(rowList, Len(rowList)) |->
            RowElements(rowList, Len(rowList))[i].value]
    /\ LaidOut => Len(positionList) = Len(heap[elementList])

C6_Witness ==
    /\ lastOp.op = "render" /\ ~lastOp.isComputeRowList
    /\ Len(positionList) = 2 /\ Len(heap[elementList]) = 1
    /\ Len(history) = 1

\* C7: after a layout pass the rows, concatenated, are the element sequence
\* in its order, element for element, and no rows come of no elements
C7_RowCompleteness ==
    LaidOut =>
        /\ RowElements(rowList, Len(rowList)) = heap[elementList]
        /\ Kinds(RowElements(rowList, Len(rowList))) = Kinds(lastOp.entry)
        /\ CountBefore(rowList, Len(rowList)) = Len(lastOp.entry)
        /\ lastOp.entry = <<>> => rowList = <<>>

C7_Witness ==
    /\ LaidOut /\ Len(rowList) = 2 /\ Len(heap[elementList]) = 2
    /\ \E n \in 1..Len(rowList) : Len(rowList[n].elementList) = 2

\* C8: after a layout pass a row's width is the sum of its elements'
\* widths, a row of several elements is no wider than the available width,
\* and a wider row is one element that alone is wider
C8_WidthContainment ==
    LaidOut =>
        \A n \in 1..Len(rowList) :
            LET row == rowList[n]
            IN /\ row.width = SumWidths(row.elementList, Len(row.elementList))
               /\ Len(row.elementList) > 1 => row.width <= InnerNow
               /\ row.width > InnerNow =>
                    /\ Len(row.elementList) = 1
                    /\ row.elementList[1].metrics.width > InnerNow

C8_Witness ==
    /\ LaidOut
    /\ \E n \in 1..Len(rowList) :
         /\ Len(rowList[n].elementList) = 2
         /\ rowList[n].elementList[1].metrics.width > InnerNow
         /\ rowList[n].elementList[2].type = "image"

\* C9: when layout reaches an image of width w with the current row r wide
\* and r + w exceeds the available width, the image gets the width left,
\* keeps its height and stays in the current row; an image that fits is
\* left as it is
C9_ImageOverflowPolicy ==
    (lastOp.op = "render" /\ lastOp.isComputeRowList) =>
        \A i \in 1..Len(lastOp.entry) :
            LET before == lastOp.entry[i]
                after == heap[elementList][i]
                r == RowWidthAt(lastOp.entry, i)
            IN before.type = "image" =>
                 IF r + before.width > InnerNow
                 THEN /\ after.width = InnerNow - r
                      /\ after.height = before.height
                      /\ RowCountAt(lastOp.entry, i) =
                           (IF i = 1 THEN 1 ELSE RowCountAt(lastOp.entry, i - 1))
                 ELSE after = before

\* C10: a render that sets the caret sets it to the position entry of the
\* target index, and to none when the target is outside the position list;
\* an empty sequence is laid out to no rows and no positions
C10_CaretTargetDegrades ==
    /\ (Rendered /\ lastOp.isSetCursor) =>
         LET target == ResolveCurIndex(lastOp.curIndexArg, positionList)
         IN IF 0 <= target /\ target < Len(positionList)
            THEN cursorPosition = positionList[target + 1]
            ELSE cursorPosition = Null
    /\ (LaidOut /\ lastOp.entry = <<>>) => rowList = <<>> /\ positionList = <<>>

C10_Witness ==
    /\ lastOp.op = "render" /\ lastOp.isSetCursor
    /\ lastOp.curIndexArg = <<MaxInitLen>>
    /\ Len(positionList) = MaxInitLen
    /\ cursorPosition = Null

====
